---- MODULE Spec2Model ----
(***************************************************************************)
(* simplesam: SAM records (simplesam.py, class Sam), the tag codec          *)
(* (encode_tag / decode_tag) and the streaming pileup of scripts/pileup.py  *)
(* (class Extractor and the pileup() driver loop).                          *)
(*                                                                          *)
(* Python strings are modelled as sequences of one-character strings, so    *)
(* that slicing, splitting, joining and regular-expression scanning are     *)
(* computed character by character as the code computes them.               *)
(***************************************************************************)
EXTENDS Integers, Sequences, FiniteSets, TLC

VARIABLES
    pep479,     \* build: TRUE when the interpreter turns a StopIteration raised
                \*   inside a generator into RuntimeError (Python >= 3.7)
    arg,        \* the input of the pure function under test (a Sam, or a tag)
    ret,        \* what the last call returned or raised
    pc,         \* position of the pileup() driver loop
    read,       \* pileup(): the loop variable `read`
    columns,    \* Extractor: the mapping pos -> (sam, deque(), deque())
    e_sam,      \* Extractor.sam: the record of the latest update()
    out,        \* args.pileup: the lines written so far
    stream,     \* history: the records the Reader has yielded so far
    ingested    \* history: the observations appended by update(), in order

vars == <<pep479, arg, ret, pc, read, columns, e_sam, out, stream, ingested>>

----------------------------------------------------------------------------
(* Bounds of the model *)

MaxCigarChars == 3      \* free-form cigar strings have at most this many characters
MaxOps == 2             \* well-formed cigars have at most this many operations
MaxSeqLen == 4          \* seq has at most this many symbols
MaxMdChars == 4         \* MD strings have at most this many characters
MaxReads == 3           \* the Reader yields at most this many records
MaxEnd == 7             \* regions to tile lie within 0..MaxEnd
MaxStep == 4            \* the window width is at most this
MaxPos == 3             \* records start at positions 1..MaxPos

----------------------------------------------------------------------------
(* Python built-ins on strings *)

Min(a, b) == IF a < b THEN a ELSE b

None == <<"None">>

Digits == <<"0", "1", "2", "3", "4", "5", "6", "7", "8", "9">>

\* str.isdigit() of one character
isdigit(c) == \E k \in 1..10 : Digits[k] = c

DigitVal(c) == (CHOOSE k \in 1..10 : Digits[k] = c) - 1

\* the characters of [A-Z]
Upper == {"A", "B", "C", "D", "E", "F", "G", "H", "I", "J", "K", "L", "M",
          "N", "O", "P", "Q", "R", "S", "T", "U", "V", "W", "X", "Y", "Z"}

\* the characters that \S does not match
Whitespace == {" ", "\t", "\n", "\r", "\f"}

\* ord(c) of the quality and gap symbols in use: Python compares one-character
\* strings by code point
ord(c) ==
    CASE c = "!" -> 33
      [] c = "#" -> 35
      [] c = "*" -> 42
      [] c = "5" -> 53
      [] c = "I" -> 73
      [] c = "~" -> 126

\* F(e), with e evaluated once: `x = e; F(x)`
Bind(e, F(_)) == CHOOSE y \in {F(x) : x \in {e}} : TRUE

\* sorted(S) of a set of integers
SortedSeq(S) ==
    [k \in 1..Cardinality(S) |-> CHOOSE x \in S : Cardinality({y \in S : y < x}) = k - 1]

\* s[i:j] for 0 <= i: a slice is clamped to the string, never an error
PySlice(s, i, j) ==
    LET hi == Min(j, Len(s))
    IN  IF i >= hi THEN <<>> ELSE SubSeq(s, i + 1, hi)

\* [c] * n
Repeat(c, n) == [k \in 1..n |-> c]

\* the value of the first n digits of s
RECURSIVE DecimalPrefix(_, _)
DecimalPrefix(s, n) ==
    IF n = 0 THEN 0 ELSE 10 * DecimalPrefix(s, n - 1) + DigitVal(s[n])

\* int(s) of a string of decimal digits
DecimalValue(s) == DecimalPrefix(s, Len(s))

AllDigits(s) == s # <<>> /\ \A k \in 1..Len(s) : isdigit(s[k])

\* what a call returned (err = "") or the exception it raised
Return(v) == [err |-> "", val |-> v]
Raise(e) == [err |-> e, val |-> <<>>]

----------------------------------------------------------------------------
(* class Sam: the cigar *)

\* Sam.__init__: the fields the modelled methods read
Sam(flag, rname, pos, cigar, seq, qual, tags) ==
    [flag |-> flag, rname |-> rname, pos |-> pos, cigar |-> cigar,
     seq |-> seq, qual |-> qual, tags |-> tags]

\* operations that consume the reference
_cigar_ref == {<<"M">>, <<"D">>, <<"N">>, <<"=">>, <<"X">>, <<"E", "Q">>}
\* operations that consume the query
_cigar_query == {<<"M">>, <<"I">>, <<"S">>, <<"=">>, <<"X">>, <<"E", "Q">>}
\* operations that do not represent an alignment
_cigar_no_align == {<<"H">>, <<"P">>}
_valid_cigar == _cigar_ref \cup _cigar_query \cup _cigar_no_align
\* operations that can be represented as aligned to the reference
_cigar_align == _cigar_ref \cap _cigar_query
\* operations that only consume the reference
_cigar_ref_only == _cigar_ref \ _cigar_align
\* operations that only consume the query
_cigar_query_only == _cigar_query \ _cigar_align

\* number of leading characters c of s with c.isdigit() = k
RECURSIVE RunLen(_, _)
RunLen(s, k) ==
    IF s = <<>> \/ isdigit(Head(s)) # k THEN 0 ELSE 1 + RunLen(Tail(s), k)

\* itertools.groupby(s, lambda c: c.isdigit()): the maximal runs, in order
groupby_isdigit(s) ==
    LET starts == SortedSeq({i \in 1..Len(s) : i = 1 \/ isdigit(s[i]) # isdigit(s[i - 1])})
        n == Len(starts)
    IN  [k \in 1..n |-> SubSeq(s, starts[k], IF k < n THEN starts[k + 1] - 1 ELSE Len(s))]

\* the loop of cigar_split from group k of gs on, ops being the operations
\* yielded so far; b is pep479
RECURSIVE cigar_loop(_, _, _, _)
cigar_loop(gs, k, ops, b) ==
    IF k > Len(gs) THEN Return(ops)
    ELSE IF ~AllDigits(gs[k])
        THEN Raise("ValueError: invalid literal for int()")
    ELSE IF k = Len(gs)
        \* next(cig_iter) raises StopIteration inside the generator
        THEN IF b THEN Raise("RuntimeError: generator raised StopIteration")
                  ELSE Return(ops)
    ELSE IF gs[k + 1] \in _valid_cigar
        THEN cigar_loop(gs, k + 2, ops \o <<<<DecimalValue(gs[k]), gs[k + 1]>>>>, b)
        ELSE Raise("ValueError: CIGAR operation is invalid")

\* tuple(self.cigar_split())
cigar_split(self, b) ==
    IF self.cigar = <<"*">>
    THEN IF b THEN Raise("RuntimeError: generator raised StopIteration")
              ELSE Return(<<<<0, None>>>>)
    ELSE Bind(groupby_isdigit(self.cigar), LAMBDA gs : cigar_loop(gs, 1, <<>>, b))

\* the property Sam.cigars (the cache holds what cigar_split returned)
cigars(self, b) == cigar_split(self, b)

\* sum(c[0] for c in ops if c[1] in self._cigar_ref)
RECURSIVE SumRef(_)
SumRef(ops) ==
    IF ops = <<>> THEN 0
    ELSE (IF Head(ops)[2] \in _cigar_ref THEN Head(ops)[1] ELSE 0) + SumRef(Tail(ops))

\* Sam.__len__
__len__(self, b) ==
    Bind(cigars(self, b), LAMBDA c : IF c.err # "" THEN c ELSE Return(SumRef(c.val)))

\* Sam.index_of
index_of(self, pos) ==
    LET i == pos - self.pos
    IN  IF i >= 0 THEN Return(i) ELSE Raise("IndexError: position not in record")

----------------------------------------------------------------------------
(* Tag codec: encode_tag, decode_tag, parse_sam_tags *)

\* Python values carry their type: text, integer, floating point. A float
\* is held as its number of tenths (1005 is 100.5): the decimal floats that
\* str() and float() convert exactly.
PyStr(s) == [kind |-> "str", v |-> s]
PyInt(n) == [kind |-> "int", v |-> n]
PyFloat(f10) == [kind |-> "float", v |-> f10]

\* str(n) of a natural number
RECURSIVE NatStr(_)
NatStr(n) ==
    IF n < 10 THEN <<Digits[n + 1]>> ELSE NatStr(n \div 10) \o <<Digits[(n % 10) + 1]>>

\* str(data)
str(data) ==
    CASE data.kind = "str" -> data.v
      [] data.kind = "int" ->
            IF data.v < 0 THEN <<"-">> \o NatStr(-data.v) ELSE NatStr(data.v)
      [] data.kind = "float" ->
            LET a == IF data.v < 0 THEN -data.v ELSE data.v
            IN  (IF data.v < 0 THEN <<"-">> ELSE <<>>)
                \o NatStr(a \div 10) \o <<".">> \o NatStr(a % 10)

\* sep.join(parts)
RECURSIVE join(_, _)
join(sep, parts) ==
    IF parts = <<>> THEN <<>>
    ELSE IF Len(parts) = 1 THEN parts[1]
    ELSE parts[1] \o sep \o join(sep, Tail(parts))

\* s.split(c): the pieces between the occurrences of c
split(s, c) ==
    LET at == <<0>> \o SortedSeq({i \in 1..Len(s) : s[i] = c}) \o <<Len(s) + 1>>
    IN  [k \in 1..(Len(at) - 1) |-> SubSeq(s, at[k] + 1, at[k + 1] - 1)]

\* int(s): an optional sign and decimal digits
int(s) ==
    LET signed == s # <<>> /\ s[1] \in {"-", "+"}
        body == IF signed THEN Tail(s) ELSE s
    IN  IF ~AllDigits(body) THEN Raise("ValueError: invalid literal for int()")
        ELSE Return(PyInt(IF signed /\ s[1] = "-" THEN -DecimalValue(body)
                          ELSE DecimalValue(body)))

\* float(s): an optional sign, decimal digits and one fractional digit
float(s) ==
    LET signed == s # <<>> /\ s[1] \in {"-", "+"}
        body == IF signed THEN Tail(s) ELSE s
        parts == split(body, ".")
        whole == parts[1]
        frac == IF Len(parts) = 2 THEN parts[2] ELSE <<"0">>
        mag == 10 * DecimalValue(whole) + DecimalValue(frac)
    IN  IF Len(parts) > 2 \/ ~AllDigits(whole) \/ ~AllDigits(frac) \/ Len(frac) # 1
        THEN Raise("ValueError: could not convert string to float")
        ELSE Return(PyFloat(IF signed /\ s[1] = "-" THEN -mag ELSE mag))

\* encode_tag
encode_tag(tag, data) ==
    IF data.kind \notin {"str", "int", "float"}
    THEN Raise("NotImplementedError: data cannot be encoded")
    ELSE LET data_type == CASE data.kind = "str" -> <<"Z">>
                            [] data.kind = "int" -> <<"i">>
                            [] data.kind = "float" -> <<"f">>
         IN  Return(join(<<":">>, <<tag, data_type, str(data)>>))

\* number of leading characters of s that \S matches
RECURSIVE NonSpaceLen(_)
NonSpaceLen(s) ==
    IF s = <<>> \/ Head(s) \in Whitespace THEN 0 ELSE 1 + NonSpaceLen(Tail(s))

\* re.match(r'([A-Z]{2}):([iZfHB]):(\S+)', s): the three groups, or None
tag_match(s) ==
    IF /\ Len(s) >= 6
       /\ s[1] \in Upper /\ s[2] \in Upper
       /\ s[3] = ":"
       /\ s[4] \in {"i", "Z", "f", "H", "B"}
       /\ s[5] = ":"
       /\ s[6] \notin Whitespace
    THEN <<SubSeq(s, 1, 2), <<s[4]>>, SubSeq(s, 6, 5 + NonSpaceLen(SubSeq(s, 6, Len(s))))>>
    ELSE None

\* the branches of decode_tag on data_type
decode_fields(tag, data_type, data) ==
    CASE data_type = <<"i">> ->
            Bind(int(data),
                 LAMBDA n : IF n.err # "" THEN n ELSE Return(<<tag, data_type, n.val>>))
      [] data_type = <<"Z">> -> Return(<<tag, data_type, PyStr(data)>>)
      [] data_type = <<"f">> ->
            Bind(float(data),
                 LAMBDA x : IF x.err # "" THEN x ELSE Return(<<tag, data_type, x.val>>))
      [] data_type = <<"A">> -> Return(<<tag, data_type, PyStr(data)>>)
      [] data_type = <<"H">> ->
            Raise("NotImplementedError: Hex array SAM tags are currently not parsed.")
      [] data_type = <<"B">> ->
            Raise("NotImplementedError: Byte array SAM tags are currently not parsed.")
      [] OTHER -> Raise("NotImplementedError: Tag cannot be parsed.")

\* decode_tag: (tag, data_type, data)
decode_tag(tag_string) ==
    Bind(split(tag_string, ":"),
         LAMBDA parts :
            IF Len(parts) = 3 THEN decode_fields(parts[1], parts[2], parts[3])
            ELSE Bind(tag_match(tag_string),
                      LAMBDA m :
                        IF m = None
                        THEN Raise("AttributeError: 'NoneType' object has no attribute 'group'")
                        ELSE decode_fields(m[1], m[2], m[3])))

\* dict(d, tag = data)
DictSet(d, tag, data) ==
    [t \in (DOMAIN d) \cup {tag} |-> IF t = tag THEN data ELSE d[t]]

\* parse_sam_tags from field k on: dict([(tag, data) ...]), a later field
\* replacing an earlier one
RECURSIVE tags_loop(_, _, _)
tags_loop(tagfields, k, d) ==
    IF k > Len(tagfields) THEN Return(d)
    ELSE Bind(decode_tag(tagfields[k]),
              LAMBDA f :
                IF f.err # "" THEN f
                ELSE Bind(DictSet(d, f.val[1], f.val[3]),
                          LAMBDA d2 : tags_loop(tagfields, k + 1, d2)))

\* parse_sam_tags
parse_sam_tags(tagfields) == tags_loop(tagfields, 1, <<>>)

\* Sam.__getitem__
__getitem__(self, tag) ==
    Bind(parse_sam_tags(self.tags),
         LAMBDA tags :
            IF tags.err # "" THEN tags
            ELSE IF tag \in DOMAIN tags.val THEN Return(tags.val[tag])
            ELSE Raise("KeyError"))

----------------------------------------------------------------------------
(* Sam.gapped and Sam.parse_md *)

SEQ == <<"s", "e", "q">>
QUAL == <<"q", "u", "a", "l">>
MD == <<"M", "D">>

\* gapped_loop with the query-only operations (I, S) leaving the cursor in place
RECURSIVE gapped_loop_noskip(_, _, _, _)
gapped_loop_noskip(ops, ungapped, i, gap_char) ==
    IF ops = <<>> THEN <<>>
    ELSE LET n == Head(ops)[1]
             t == Head(ops)[2]
         IN  IF t \in _cigar_align
             THEN PySlice(ungapped, i, i + n)
                  \o gapped_loop_noskip(Tail(ops), ungapped, i + n, gap_char)
             ELSE IF t \in _cigar_ref_only
             THEN Repeat(gap_char, n) \o gapped_loop_noskip(Tail(ops), ungapped, i, gap_char)
             ELSE gapped_loop_noskip(Tail(ops), ungapped, i, gap_char)

\* the loop of gapped over the operations ops that are left, the source cursor at i
RECURSIVE gapped_loop(_, _, _, _)
gapped_loop(ops, ungapped, i, gap_char) ==
    IF ops = <<>> THEN <<>>
    ELSE LET n == Head(ops)[1]
             t == Head(ops)[2]
         IN  IF t \in _cigar_align
             THEN PySlice(ungapped, i, i + n) \o gapped_loop(Tail(ops), ungapped, i + n, gap_char)
             ELSE IF t \in _cigar_ref_only
             THEN Repeat(gap_char, n) \o gapped_loop(Tail(ops), ungapped, i, gap_char)
             ELSE IF t \in _cigar_query_only
             THEN gapped_loop(Tail(ops), ungapped, i + n, gap_char)
             ELSE gapped_loop(Tail(ops), ungapped, i, gap_char)

\* getattr(self, attr), and self[attr] for a tag
ungapped_of(self, attr) ==
    IF attr = SEQ THEN Return(PyStr(self.seq))
    ELSE IF attr = QUAL THEN Return(PyStr(self.qual))
    ELSE __getitem__(self, attr)

\* Sam.gapped
gapped(self, attr, gap_char, b) ==
    Bind(ungapped_of(self, attr),
         LAMBDA got :
            IF got.err # "" THEN got
            ELSE IF got.val.kind # "str" THEN Raise("TypeError: object has no len()")
            ELSE IF Len(got.val.v) # Len(self.seq)
            THEN Raise("ValueError: attribute length is not equal to the length of Sam.seq")
            ELSE Bind(cigars(self, b),
                      LAMBDA c :
                        IF c.err # "" THEN c
                        ELSE Return(gapped_loop(c.val, got.val.v, 0, gap_char))))

\* number of leading characters of s in [A-Z]
RECURSIVE UpperLen(_)
UpperLen(s) ==
    IF s = <<>> \/ Head(s) \notin Upper THEN 0 ELSE 1 + UpperLen(Tail(s))

\* one match of ([0-9]+)\^?([A-Z]+)? at the start of md, which starts with a
\* digit: the two groups and the number of characters matched
md_match_at(md) ==
    LET nd == RunLen(md, TRUE)
        caret == IF nd < Len(md) /\ md[nd + 1] = "^" THEN 1 ELSE 0
        nl == UpperLen(SubSeq(md, nd + caret + 1, Len(md)))
    IN  <<SubSeq(md, 1, nd), SubSeq(md, nd + caret + 1, nd + caret + nl), nd + caret + nl>>

\* re.findall(r"([0-9]+)\^?([A-Z]+)?", md): the (digits, letters) pairs
RECURSIVE md_findall(_)
md_findall(md) ==
    IF md = <<>> THEN <<>>
    ELSE IF ~isdigit(Head(md)) THEN md_findall(Tail(md))
    ELSE Bind(md_match_at(md),
              LAMBDA m : <<<<m[1], m[2]>>>>
                         \o Bind(SubSeq(md, m[3] + 1, Len(md)), md_findall))

\* md_letters with a letter never written over a gap
RECURSIVE md_letters_keep_gap(_, _, _)
md_letters_keep_gap(ref_seq, ref_seq_i, b) ==
    IF b = <<>> THEN Return(<<ref_seq, ref_seq_i>>)
    ELSE IF ref_seq_i >= Len(ref_seq) THEN Raise("IndexError")
    ELSE md_letters_keep_gap(
            IF ref_seq[ref_seq_i + 1] = "-" THEN ref_seq
            ELSE [ref_seq EXCEPT ![ref_seq_i + 1] = Head(b)],
            ref_seq_i + 1, Tail(b))

\* the inner loop of parse_md, `for mismatch in b`: the list and the cursor
RECURSIVE md_letters(_, _, _)
md_letters(ref_seq, ref_seq_i, b) ==
    IF b = <<>> THEN Return(<<ref_seq, ref_seq_i>>)
    ELSE IF ref_seq_i >= Len(ref_seq) THEN Raise("IndexError")
    ELSE md_letters([ref_seq EXCEPT ![ref_seq_i + 1] = Head(b)], ref_seq_i + 1, Tail(b))

\* the outer loop of parse_md, `for i, b in md_match`
RECURSIVE md_loop(_, _, _)
md_loop(ref_seq, ref_seq_i, md_match) ==
    IF md_match = <<>> THEN Return(ref_seq)
    ELSE Bind(md_letters(ref_seq, ref_seq_i + DecimalValue(Head(md_match)[1]),
                         Head(md_match)[2]),
              LAMBDA r : IF r.err # "" THEN r
                         ELSE md_loop(r.val[1], r.val[2], Tail(md_match)))

\* Sam.parse_md (the cache holds what the first call returned)
parse_md(self, b) ==
    Bind(__getitem__(self, MD),
         LAMBDA md :
            IF md.err = "KeyError" THEN Raise("KeyError: MD tag not found in SAM record.")
            ELSE IF md.err # "" THEN md
            ELSE Bind(gapped(self, SEQ, "-", b),
                      LAMBDA g :
                        IF g.err # "" THEN g
                        ELSE IF md.val.kind # "str" THEN Raise("TypeError: expected string")
                        ELSE Bind(md_findall(md.val.v),
                                  LAMBDA md_match : md_loop(g.val, 0, md_match))))

----------------------------------------------------------------------------
(* Inputs of the Sam methods *)

\* all strings over alphabet of length 0..n
Strings(alphabet, n) == UNION {[1..k -> alphabet] : k \in 0..n}

CigarAlphabet == {"1", "M", "E", "Q", "Z", "*"}

NineOps == {"M", "I", "D", "N", "S", "H", "P", "=", "X"}

\* the (length, letter) operations: each letter with length 1, and M, I, D
\* with length 2
OpChoices == ({1} \X NineOps) \cup ({2} \X {"M", "I", "D"})

SeqPool == <<"A", "C", "G", "T", "N", "A", "T", "G">>
QualPool == <<"I", "#", "5", "!", "I", "#", "5", "!">>

\* the cigar string of a list of (length, letter) operations
RECURSIVE CigarString(_)
CigarString(ops) ==
    IF ops = <<>> THEN <<>>
    ELSE NatStr(Head(ops)[1]) \o <<Head(ops)[2]>> \o CigarString(Tail(ops))

\* the lists of 0..n operations over the nine letters
OpLists(n) == UNION {[1..k -> OpChoices] : k \in 0..n}

MDTag(md) == <<MD \o <<":", "Z", ":">> \o md>>

\* r001 of the docstring of Sam.gapped
Example ==
    Sam(99, "ref", 7, <<"8", "M", "2", "I", "4", "M", "1", "D", "3", "M">>,
        <<"T", "T", "A", "G", "A", "T", "A", "A", "A", "G", "G", "A", "T", "A", "C", "T", "G">>,
        <<"*">>, <<>>)

\* any string as the cigar of a record
FreeCigarSams ==
    {Sam(0, "ref", 1, c, <<"A", "C">>, <<"I", "I">>, <<>>) :
        c \in Strings(CigarAlphabet, MaxCigarChars)}

\* well-formed cigars with a seq shorter than, as long as or longer than the
\* query length of the cigar, or '*'
OpListSams ==
    {Sam(0, "ref", 1, CigarString(l), SubSeq(SeqPool, 1, n), SubSeq(QualPool, 1, n), <<>>) :
        l \in OpLists(MaxOps) \ {<<>>}, n \in (MaxSeqLen - 2)..MaxSeqLen}
    \cup {Sam(0, "ref", 1, CigarString(l), <<"*">>, <<"*">>, <<>>) :
        l \in OpLists(MaxOps) \ {<<>>}}

MdAlphabet == {"0", "1", "^", "A", "C"}

MdShapes ==
    {<<<<"2", "M">>, <<"G", "T">>>>,
     <<<<"1", "M", "1", "D", "1", "M">>, <<"G", "T">>>>,
     <<<<"1", "S", "1", "M", "2", "D", "1", "M">>, <<"N", "G", "T">>>>}

\* records with an MD tag
MdSams ==
    {Sam(0, "ref", 1, sh[1], sh[2], Repeat("I", Len(sh[2])), MDTag(md)) :
        sh \in MdShapes, md \in Strings(MdAlphabet, MaxMdChars)}

SamInputs == FreeCigarSams \cup OpListSams \cup MdSams \cup {Example}

NoCall == [op |-> "none", attr |-> <<>>, gap |-> "", r |-> Return(<<>>)]

----------------------------------------------------------------------------
(* The driver state left untouched by the pure-function specifications *)

IdleDriver ==
    /\ pc = "idle"
    /\ read = None
    /\ columns = <<>>
    /\ e_sam = None
    /\ out = <<>>
    /\ stream = <<>>
    /\ ingested = <<>>

driver_vars == <<pc, read, columns, e_sam, out, stream, ingested>>

----------------------------------------------------------------------------
(* Specification SpecSam: the methods of one Sam record.  The methods are  *)
(* pure (the caches hold what the first call returned), so each record is  *)
(* observed through one call.                                              *)

InitSam ==
    /\ pep479 \in BOOLEAN
    /\ arg \in SamInputs
    /\ ret = NoCall
    /\ IdleDriver

\* sam.cigars
CallCigars ==
    /\ ret.op = "none"
    /\ ret' = [op |-> "cigars", attr |-> <<>>, gap |-> "", r |-> cigars(arg, pep479)]
    /\ UNCHANGED <<pep479, arg, driver_vars>>

\* len(sam)
CallLen ==
    /\ ret.op = "none"
    /\ ret' = [op |-> "len", attr |-> <<>>, gap |-> "", r |-> __len__(arg, pep479)]
    /\ UNCHANGED <<pep479, arg, driver_vars>>

\* sam.gapped(attr, gap_char)
CallGapped ==
    \E attr \in {SEQ, QUAL}, gap_char \in {"-", "~"} :
        /\ ret.op = "none"
        /\ ret' = [op |-> "gapped", attr |-> attr, gap |-> gap_char,
                   r |-> gapped(arg, attr, gap_char, pep479)]
        /\ UNCHANGED <<pep479, arg, driver_vars>>

\* sam.parse_md()
CallParseMd ==
    /\ ret.op = "none"
    /\ ret' = [op |-> "parse_md", attr |-> <<>>, gap |-> "", r |-> parse_md(arg, pep479)]
    /\ UNCHANGED <<pep479, arg, driver_vars>>

NextSam == CallCigars \/ CallLen \/ CallGapped \/ CallParseMd

SpecSam == InitSam /\ [][NextSam]_vars

----------------------------------------------------------------------------
(* scripts/pileup.py: class Extractor *)

\* the argument `stop` of clear: NoStop is None, Stop(p) is the position p
NoStop == <<>>
Stop(p) == <<p>>

\* the mapping cols with key p set to col
ColSet(cols, p, col) ==
    [q \in (DOMAIN cols) \cup {p} |-> IF q = p THEN col ELSE cols[q]]

\* self.pop(p) with the key left in the mapping
ColPop_keep(cols, p) == cols

\* self.pop(p): the mapping cols without key p
ColPop(cols, p) == [q \in (DOMAIN cols) \ {p} |-> cols[q]]

\* Extractor.__missing__: the value of a new column. seq and qual are the two
\* deques; src is history, the rname of the record behind each observation
__missing__(self_sam) == [sam |-> self_sam, seq |-> <<>>, qual |-> <<>>, src |-> <<>>]

\* self[p][1].append(seq); self[p][2].append(qual)
ColAppend(cols, self_sam, p, seq, qual) ==
    LET col == IF p \in DOMAIN cols THEN cols[p] ELSE __missing__(self_sam)
    IN  ColSet(cols, p, [col EXCEPT !.seq = Append(@, seq),
                                    !.qual = Append(@, qual),
                                    !.src = Append(@, self_sam.rname)])

\* `qual > min_qual` with the symbol at least as large as min_qual passing too
passes_or_equal(qual, min_qual) == ord(qual) >= ord(min_qual)

\* `qual > min_qual` on two one-character strings
passes(qual, min_qual) == ord(qual) > ord(min_qual)

\* the loop of update from index i on, over zip(gs, gq)
RECURSIVE update_loop(_, _, _, _, _, _)
update_loop(cols, sam, gs, gq, i, min_qual) ==
    IF i >= Min(Len(gs), Len(gq)) THEN cols
    ELSE IF passes(gq[i + 1], min_qual)
    THEN Bind(ColAppend(cols, sam, sam.pos + i, gs[i + 1], gq[i + 1]),
              LAMBDA c : update_loop(c, sam, gs, gq, i + 1, min_qual))
    ELSE update_loop(cols, sam, gs, gq, i + 1, min_qual)

\* Extractor.update: the mapping afterwards, or the exception of gapped
update(cols, sam, min_qual, b) ==
    Bind(gapped(sam, SEQ, "-", b),
         LAMBDA gs :
            IF gs.err # "" THEN gs
            ELSE Bind(gapped(sam, QUAL, "~", b),
                      LAMBDA gq :
                        IF gq.err # "" THEN gq
                        ELSE Return(update_loop(cols, sam, gs.val, gq.val, 0, min_qual))))

\* clear_keys with a column at the stop position evicted too
clear_keys_upto(cols, stop) ==
    SortedSeq({k \in DOMAIN cols : stop # NoStop /\ k <= stop[1]})

\* sorted(k for k in self.keys() if stop is not None and k < stop)
clear_keys(cols, stop) ==
    SortedSeq({k \in DOMAIN cols : stop # NoStop /\ k < stop[1]})

\* the indices of the observations that differ from ref, in order
Mismatches(col, ref) == SortedSeq({j \in 1..Len(col.seq) : col.seq[j] # ref})

\* pileup_line with the match count not reduced by the mismatches
pileup_line_all(col, pos, ref) ==
    LET mm == Mismatches(col, ref)
        s == [j \in 1..Len(mm) |-> col.seq[mm[j]]]
        q == [j \in 1..Len(mm) |-> col.qual[mm[j]]]
    IN  [line |-> <<col.sam.rname, NatStr(pos), <<ref>>, NatStr(Len(col.seq)),
                    NatStr(Len(s)), s, q>>,
         pos |-> pos, seq |-> col.seq, qual |-> col.qual, src |-> col.src]

\* the tuple that clear yields for one column: zip(*[...]) of the mismatching
\* (s, q) pairs, and ([], []) when there is none (the ValueError is caught).
\* pos, seq, qual and src are history: the column as it was evicted
pileup_line(col, pos, ref) ==
    LET mm == Mismatches(col, ref)
        s == IF mm = <<>> THEN <<>> ELSE [j \in 1..Len(mm) |-> col.seq[mm[j]]]
        q == IF mm = <<>> THEN <<>> ELSE [j \in 1..Len(mm) |-> col.qual[mm[j]]]
    IN  [line |-> <<col.sam.rname, NatStr(pos), <<ref>>, NatStr(Len(col.seq) - Len(s)),
                    NatStr(Len(s)), s, q>>,
         pos |-> pos, seq |-> col.seq, qual |-> col.qual, src |-> col.src]

\* the body of the loop of clear for the column col popped at pos
clear_one(col, pos, b) ==
    Bind(parse_md(col.sam, b),
         LAMBDA md :
            IF md.err # "" THEN md
            ELSE Bind(index_of(col.sam, pos),
                      LAMBDA ix :
                        IF ix.err # "" THEN ix
                        ELSE IF ix.val >= Len(md.val) THEN Raise("IndexError")
                        ELSE Return(pileup_line(col, pos, md.val[ix.val + 1]))))

\* the loop of clear from key k of keys on: the mapping, the lines yielded
\* and the exception that ended it, if any
RECURSIVE clear_loop(_, _, _, _, _)
clear_loop(keys, k, cols, lines, b) ==
    IF k > Len(keys) THEN [cols |-> cols, lines |-> lines, err |-> ""]
    ELSE Bind(<<ColPop(cols, keys[k]), clear_one(cols[keys[k]], keys[k], b)>>,
              LAMBDA x :
                IF x[2].err # "" THEN [cols |-> x[1], lines |-> lines, err |-> x[2].err]
                ELSE Bind(Append(lines, x[2].val),
                          LAMBDA l : clear_loop(keys, k + 1, x[1], l, b)))

\* Extractor.clear, run to its end by the `for line in` of the caller
clear(cols, stop, b) ==
    Bind(clear_keys(cols, stop), LAMBDA keys : clear_loop(keys, 1, cols, <<>>, b))

----------------------------------------------------------------------------
(* scripts/pileup.py: pileup(), and the records of the sorted BAM *)

\* flag & mask # 0, for a mask of one bit
FlagBit(flag, mask) == (flag \div mask) % 2 = 1

\* Sam.mapped, Sam.duplicate, Sam.secondary
mapped(self) == ~FlagBit(self.flag, 4)
duplicate(self) == FlagBit(self.flag, 1024)
secondary(self) == FlagBit(self.flag, 256)

\* e.update(read, '!')
min_qual == "!"

Rnames == <<"chr1", "chr2">>

\* cigar, seq, qual and tags of the records of the stream
Shapes ==
    {<<<<"2", "M">>, <<"A", "A">>, <<"I", "I">>, MDTag(<<"2">>)>>,
     <<<<"2", "M">>, <<"T", "A">>, <<"I", "!">>, MDTag(<<"0", "A", "1">>)>>,
     <<<<"1", "M", "1", "D", "1", "M">>, <<"A", "A">>, <<"#", "I">>,
       MDTag(<<"1", "^", "C", "1">>)>>,
     <<<<"*">>, <<"A", "A">>, <<"I", "I">>, <<>>>>,
     <<<<"1", "M">>, <<"A">>, <<"I">>, <<>>>>}

\* the records a sorted BAM may hold: mapped ones of every shape on the
\* first reference and of one shape on the second, and a duplicate, a
\* secondary and an unmapped one
StreamSams ==
    {Sam(0, Rnames[1], p, sh[1], sh[2], sh[3], sh[4]) : p \in 1..MaxPos, sh \in Shapes}
    \cup {Sam(0, Rnames[2], p, <<"2", "M">>, <<"A", "A">>, <<"I", "I">>, MDTag(<<"2">>)) :
        p \in 1..MaxPos}
    \cup {Sam(f, Rnames[1], 1, <<"2", "M">>, <<"A", "A">>, <<"I", "I">>, MDTag(<<"2">>)) :
        f \in {1024, 256}}
    \cup {Sam(4, Rnames[2], MaxPos, <<"*">>, <<"A", "A">>, <<"I", "I">>, <<>>)}

RnameIndex(rname) == CHOOSE r \in 1..Len(Rnames) : Rnames[r] = rname

\* the order of a coordinate-sorted BAM: by reference, then by position
SortedAfter(a, r) ==
    \/ RnameIndex(a.rname) < RnameIndex(r.rname)
    \/ a.rname = r.rname /\ a.pos <= r.pos

\* the observations that update appended: those of cols2 that cols1 lacks
NewObservations(cols1, cols2, n) ==
    LET count(p) == Len(cols2[p].seq) - (IF p \in DOMAIN cols1 THEN Len(cols1[p].seq) ELSE 0)
        added == SortedSeq({p \in DOMAIN cols2 : count(p) > 0})
    IN  [j \in 1..Len(added) |->
            [n |-> n, pos |-> added[j],
             seq |-> cols2[added[j]].seq[Len(cols2[added[j]].seq)],
             qual |-> cols2[added[j]].qual[Len(cols2[added[j]].qual)]]]

\* bases = ('A', 'C', 'T', 'G', 'N', '-')
bases == <<"A", "C", "T", "G", "N", "-">>

\* s.count(c) for a one-character c
count(s, c) == Cardinality({j \in 1..Len(s) : s[j] = c})

\* [str(line[5].count(c)) for c in bases]: the columns that follow the line
\* when args.counts is set
count_columns(line) == [k \in 1..Len(bases) |-> NatStr(count(line[6], bases[k]))]

\* the lines written while record number n was the current one: line is the
\* tuple joined by tabs, counts the columns that follow it when args.counts
\* is set (history: pos, seq, qual, src, at)
Written(lines, n) ==
    [j \in 1..Len(lines) |->
        [line |-> lines[j].line, counts |-> count_columns(lines[j].line),
         pos |-> lines[j].pos, seq |-> lines[j].seq,
         qual |-> lines[j].qual, src |-> lines[j].src, at |-> n]]

InitDriver ==
    /\ pep479 \in BOOLEAN
    /\ arg = None
    /\ ret = Return(<<>>)
    /\ pc = "loop"
    /\ read = None
    /\ columns = <<>>
    /\ e_sam = None
    /\ out = <<>>
    /\ stream = <<>>
    /\ ingested = <<>>

\* `for read in bam`: the next record of the sorted stream
Fetched(r) ==
    /\ pc = "loop"
    /\ Len(stream) < MaxReads
    /\ stream # <<>> => SortedAfter(stream[Len(stream)], r)
    /\ stream' = Append(stream, r)
    /\ read' = r

\* lines 44-49: the record is unmapped, a duplicate or secondary: continue
Skip ==
    \E r \in StreamSams :
        /\ Fetched(r)
        /\ ~mapped(r) \/ duplicate(r) \/ secondary(r)
        /\ UNCHANGED <<pep479, arg, ret, pc, columns, e_sam, out, ingested>>

\* lines 50-57: `for line in e.clear(stop=read.pos)`, each line written
Evict ==
    \E r \in StreamSams :
        /\ Fetched(r)
        /\ mapped(r) /\ ~duplicate(r) /\ ~secondary(r)
        /\ \E c \in {clear(columns, Stop(r.pos), pep479)} :
            /\ columns' = c.cols
            /\ out' = out \o Written(c.lines, Len(stream) + 1)
            /\ pc' = IF c.err = "" THEN "update" ELSE "error"
            /\ ret' = IF c.err = "" THEN ret ELSE Raise(c.err)
        /\ UNCHANGED <<pep479, arg, e_sam, ingested>>

\* line 58: e.update(read, '!')
Update ==
    /\ pc = "update"
    /\ e_sam' = read
    /\ \E u \in {update(columns, read, min_qual, pep479)} :
        /\ columns' = IF u.err = "" THEN u.val ELSE columns
        /\ ingested' = IF u.err = "" THEN ingested \o NewObservations(columns, u.val, Len(stream))
                       ELSE ingested
        /\ pc' = IF u.err = "" THEN "loop" ELSE "error"
        /\ ret' = IF u.err = "" THEN ret ELSE Raise(u.err)
    /\ UNCHANGED <<pep479, arg, read, out, stream>>

\* lines 60-67: the stream has ended: `for line in e.clear()`, each line written
EndOfStream ==
    /\ pc = "loop"
    /\ \E c \in {clear(columns, NoStop, pep479)} :
        /\ columns' = c.cols
        /\ out' = out \o Written(c.lines, Len(stream) + 1)
        /\ pc' = IF c.err = "" THEN "done" ELSE "error"
        /\ ret' = IF c.err = "" THEN ret ELSE Raise(c.err)
    /\ UNCHANGED <<pep479, arg, read, e_sam, stream, ingested>>

Next == Skip \/ Evict \/ Update \/ EndOfStream

Spec == InitDriver /\ [][Next]_vars

----------------------------------------------------------------------------
(* encode_tag and decode_tag applied in turn to a tag name and a value *)

TagNames == {<<"N", "M">>, <<"X", "S">>, <<"X", "0">>}

MaxTextLen == 3         \* text values have at most this many characters

\* the values of the three kinds: text, integers, and floats in tenths
TextValues == {PyStr(t) : t \in Strings({"a", ":", " "}, MaxTextLen)}
IntValues == {PyInt(n) : n \in {-1, 0, 12}}
FloatValues == {PyFloat(f) : f \in {-15, 5, 20}}

InitTag ==
    /\ pep479 \in BOOLEAN
    /\ \/ arg \in [tag : TagNames, data : TextValues]
       \/ arg \in [tag : TagNames, data : IntValues]
       \/ arg \in [tag : TagNames, data : FloatValues]
    /\ ret = NoCall
    /\ IdleDriver

\* encode_tag(tag, data)
CallEncode ==
    /\ ret.op = "none"
    /\ ret' = [op |-> "encode_tag", attr |-> <<>>, gap |-> "",
               r |-> encode_tag(arg.tag, arg.data)]
    /\ UNCHANGED <<pep479, arg, driver_vars>>

\* decode_tag of the string that encode_tag returned
CallDecode ==
    /\ ret.op = "encode_tag"
    /\ ret.r.err = ""
    /\ ret' = [op |-> "decode_tag", attr |-> <<>>, gap |-> "",
               r |-> decode_tag(ret.r.val)]
    /\ UNCHANGED <<pep479, arg, driver_vars>>

NextTag == CallEncode \/ CallDecode

SpecTag == InitTag /\ [][NextTag]_vars

----------------------------------------------------------------------------
(* tile_region applied to a region and a window width *)

\* '%s:%d-%d' % (rname, a, b)
region(rname, a, b) ==
    rname \o <<":">> \o str(PyInt(a)) \o <<"-">> \o str(PyInt(b))

\* the while loop of tile_region, then the `if start < end` after it:
\* windows holds the strings yielded so far
RECURSIVE tile_loop(_, _, _, _, _)
tile_loop(rname, start, end, step, windows) ==
    IF start + step <= end
    THEN Bind(<<start + step, Append(windows, region(rname, start, start + step - 1))>>,
              LAMBDA x : tile_loop(rname, x[1], end, step, x[2]))
    ELSE IF start < end THEN Append(windows, region(rname, start, end))
    ELSE windows

\* list(tile_region(rname, start, end, step))
tile_region(rname, start, end, step) == Return(tile_loop(rname, start, end, step, <<>>))

TileInputs ==
    {[rname |-> <<"c", "h", "r", "1">>, start |-> a, end |-> b, step |-> w] :
        a \in 0..MaxEnd, b \in 0..MaxEnd, w \in 1..MaxStep}

InitTile ==
    /\ pep479 \in BOOLEAN
    /\ arg \in {t \in TileInputs : t.start <= t.end}
    /\ ret = NoCall
    /\ IdleDriver

\* list(tile_region(rname, start, end, step))
CallTileRegion ==
    /\ ret.op = "none"
    /\ ret' = [op |-> "tile_region", attr |-> <<>>, gap |-> "",
               r |-> tile_region(arg.rname, arg.start, arg.end, arg.step)]
    /\ UNCHANGED <<pep479, arg, driver_vars>>

NextTile == CallTileRegion

SpecTile == InitTile /\ [][NextTile]_vars

----------------------------------------------------------------------------
(* Properties of the Sam methods, checked under SpecSam *)

NineTokens == {<<c>> : c \in NineOps}

\* the cigar is (digits, non-digits) pairs: what the grammar calls
\* (decimal-length)(operation) runs
WellFormedCigar(c) ==
    LET gs == groupby_isdigit(c)
    IN  /\ Len(gs) > 0
        /\ Len(gs) % 2 = 0
        /\ AllDigits(gs[1])

\* the operation tokens of a well-formed cigar
CigarTokens(c) ==
    LET gs == groupby_isdigit(c)
    IN  {gs[2 * k] : k \in 1..(Len(gs) \div 2)}

\* one (length, operation) pair per run
CigarPairs(c) ==
    LET gs == groupby_isdigit(c)
    IN  [k \in 1..(Len(gs) \div 2) |-> <<DecimalValue(gs[2 * k - 1]), gs[2 * k]>>]

\* the record's cigar parses, into operations of the nine letters only
ValidCigar(self, b) ==
    LET c == cigars(self, b)
    IN  c.err = "" /\ \A k \in 1..Len(c.val) : c.val[k][2] \in NineTokens \cup {None}

\* the sum of the lengths of M, D, N, =, X
RECURSIVE AlignedLength(_)
AlignedLength(ops) ==
    IF ops = <<>> THEN 0
    ELSE (IF Head(ops)[2] \in {<<"M">>, <<"D">>, <<"N">>, <<"=">>, <<"X">>}
          THEN Head(ops)[1] ELSE 0) + AlignedLength(Tail(ops))

\* C4: for every record with a valid cigar string, whatever its seq, the
\* length of gapped('seq') is aligned_length(), the sum of the lengths of the
\* reference-consuming operations.
C4_GappedLengthIsAlignedLength ==
    (ret.op = "gapped" /\ ret.attr = SEQ /\ ValidCigar(arg, pep479)) =>
        /\ ret.r.err = ""
        /\ Len(ret.r.val) = AlignedLength(cigars(arg, pep479).val)
        /\ Len(ret.r.val) = __len__(arg, pep479).val

\* the operations one reference or query unit at a time: 2M1D is M, M, D
RECURSIVE UnitsOf(_)
UnitsOf(ops) ==
    IF ops = <<>> THEN <<>>
    ELSE Repeat(Head(ops)[2], Head(ops)[1]) \o UnitsOf(Tail(ops))

\* number of source symbols that the units before unit k consume
QueryBefore(u, k) ==
    Cardinality({j \in 1..(k - 1) : u[j] \in {<<"M">>, <<"I">>, <<"S">>, <<"=">>, <<"X">>}})

\* what unit k contributes to the projection
Cell(u, k, src, gap_char) ==
    IF u[k] \in {<<"M">>, <<"=">>, <<"X">>}
    THEN IF QueryBefore(u, k) < Len(src) THEN <<src[QueryBefore(u, k) + 1]>> ELSE <<>>
    ELSE IF u[k] \in {<<"D">>, <<"N">>} THEN <<gap_char>>
    ELSE <<>>

\* the reference-coordinate projection of src, from the first n units
RECURSIVE Projection(_, _, _, _)
Projection(u, n, src, gap_char) ==
    IF n = 0 THEN <<>>
    ELSE Projection(u, n - 1, src, gap_char) \o Cell(u, n, src, gap_char)

ExampleGapped ==
    <<"T", "T", "A", "G", "A", "T", "A", "A", "G", "A", "T", "A", "-", "C", "T", "G">>

\* C5: gapped(attribute, gap_char) is the reference-coordinate projection of
\* the attribute: the symbols under M/=/X in their order, gap_char for each
\* unit of D/N, the symbols under I/S skipped, H/P changing nothing; and
\* 8M2I4M1D3M with TTAGATAAAGGATACTG gives TTAGATAAGATA-CTG.
C5_GappedIsProjection ==
    (ret.op = "gapped" /\ ret.r.err = "" /\ ValidCigar(arg, pep479)) =>
        LET u == UnitsOf(cigars(arg, pep479).val)
            src == IF ret.attr = SEQ THEN arg.seq ELSE arg.qual
        IN  /\ ret.r.val = Projection(u, Len(u), src, ret.gap)
            /\ (arg = Example /\ ret.attr = SEQ /\ ret.gap = "-") => ret.r.val = ExampleGapped

\* C5 witness: the docstring's record r001 has been projected
C5_Witness ==
    /\ ret.op = "gapped"
    /\ arg = Example
    /\ ret.attr = SEQ
    /\ ret.gap = "-"
    /\ ret.r = Return(ExampleGapped)

\* the MD string of the record
MdOf(self) == __getitem__(self, MD).val.v

\* every letter of md belongs to a ^-prefixed deletion group
AllLettersDeleted(md) ==
    \A k \in 1..Len(md) :
        md[k] \in Upper =>
            \E j \in 1..(k - 1) : md[j] = "^" /\ \A i \in (j + 1)..k : md[i] \in Upper

RECURSIVE MdPlan(_)
MdPlan(md_match) ==
    IF md_match = <<>> THEN <<>>
    ELSE Repeat(".", DecimalValue(Head(md_match)[1])) \o Head(md_match)[2]
         \o MdPlan(Tail(md_match))

C7_CigarParse ==
    ret.op = "cigars" =>
        /\ arg.cigar = <<"*">> => ret.r = Return(<<>>)
        /\ (WellFormedCigar(arg.cigar) /\ CigarTokens(arg.cigar) \subseteq NineTokens)
            => ret.r = Return(CigarPairs(arg.cigar))
        /\ (WellFormedCigar(arg.cigar) /\ ~(CigarTokens(arg.cigar) \subseteq NineTokens))
            => ret.r.err = "ValueError: CIGAR operation is invalid"

----------------------------------------------------------------------------
(* Properties of the pileup driver, checked under Spec *)

\* the observations held by the written lines
WrittenObservations ==
    LET RECURSIVE total(_)
        total(k) == IF k = 0 THEN 0 ELSE Len(out[k].seq) + total(k - 1)
    IN  total(Len(out))

\* C1: when the run has ended, the final evict has emitted every resident
\* column and left the column map empty, so that every observation ingested
\* during the run is in a written column.
C1_FlushEmitsAll ==
    pc = "done" =>
        /\ DOMAIN columns = {}
        /\ WrittenObservations = Len(ingested)

\* the stream read so far is sorted by leftmost position
PosSorted == \A k \in 1..(Len(stream) - 1) : stream[k].pos <= stream[k + 1].pos

\* the record is one the driver ingests
Processed(r) == mapped(r) /\ ~duplicate(r) /\ ~secondary(r)

\* the reference positions the record covers
Covered(r) ==
    IF WellFormedCigar(r.cigar)
    THEN r.pos..(r.pos + AlignedLength(CigarPairs(r.cigar)) - 1)
    ELSE {}

\* C2: for a stream sorted by leftmost position, the written columns are in
\* strictly increasing position order, and no record ingested after a column
\* was written covers the position of that column.
C2_EvictionOrder ==
    PosSorted =>
        /\ \A i \in 1..Len(out) : \A j \in 1..Len(out) :
                i < j => out[i].pos < out[j].pos
        /\ \A i \in 1..Len(out) : \A k \in 1..Len(stream) :
                (k >= out[i].at /\ Processed(stream[k]))
                    => out[i].pos \notin Covered(stream[k])

\* two columns were written for a position-sorted stream, and a record has
\* been ingested after the first of them
C2_Witness ==
    /\ PosSorted
    /\ Len(out) >= 2
    /\ \E j \in 1..Len(ingested) : ingested[j].n >= out[1].at

\* C3: every written column holds only observations of records whose rname
\* is the rname written for the column.
C3_ColumnsKeyedByRname ==
    \A i \in 1..Len(out) :
        \A j \in 1..Len(out[i].src) : out[i].src[j] = out[i].line[1]

\* the (base, quality) pairs of a column whose base differs from ref
Differing(seq, qual, ref) ==
    SelectSeq([j \in 1..Len(seq) |-> <<seq[j], qual[j]>>], LAMBDA x : x[1] # ref)

\* C8: in every written column the match and mismatch counts add up to the
\* number of observations of the column, the mismatch bases and qualities are
\* the observations whose base differs from the reference base, in the order
\* observed, and a column whose observations all equal the reference base is
\* written with mismatch count 0 and empty mismatch bases and qualities.
C8_ColumnCounts ==
    \A i \in 1..Len(out) :
        LET l == out[i].line
            d == Differing(out[i].seq, out[i].qual, l[3][1])
        IN  /\ Len(out[i].seq) = Len(out[i].qual)
            /\ DecimalValue(l[4]) + DecimalValue(l[5]) = Len(out[i].seq)
            /\ DecimalValue(l[5]) = Len(d)
            /\ l[6] = [j \in 1..Len(d) |-> d[j][1]]
            /\ l[7] = [j \in 1..Len(d) |-> d[j][2]]
            /\ (\A j \in 1..Len(out[i].seq) : out[i].seq[j] = l[3][1])
                    => (l[5] = <<"0">> /\ l[6] = <<>> /\ l[7] = <<>>)

\* a column with bases A and T over reference base A was written with one
\* match and the mismatch T, and a column whose observations all equal the
\* reference base was written with no mismatch
C8_Witness ==
    /\ \E i \in 1..Len(out) :
        /\ out[i].seq = <<"A", "T">>
        /\ out[i].line[3] = <<"A">>
        /\ out[i].line[4] = <<"1">>
        /\ out[i].line[5] = <<"1">>
        /\ out[i].line[6] = <<"T">>
    /\ \E i \in 1..Len(out) :
        /\ out[i].seq # <<>>
        /\ \A j \in 1..Len(out[i].seq) : out[i].seq[j] = out[i].line[3][1]
        /\ out[i].line[5] = <<"0">>
        /\ out[i].line[6] = <<>>

\* the observations of the column at p in the mapping cols
Observed(cols, p) ==
    IF p \in DOMAIN cols
    THEN [j \in 1..Len(cols[p].seq) |-> <<cols[p].seq[j], cols[p].qual[j]>>]
    ELSE <<>>

\* the pair that ingesting the record r appends at p, as a sequence of at
\* most one pair: the one at index p - r.pos of the gapped seq and qual, when
\* its quality symbol is strictly greater than min_qual
Appended(r, p) ==
    LET u == IF WellFormedCigar(r.cigar) THEN UnitsOf(CigarPairs(r.cigar)) ELSE <<>>
        n == IF WellFormedCigar(r.cigar) THEN AlignedLength(CigarPairs(r.cigar)) ELSE 0
        gs == Projection(u, n, r.seq, "-")
        gq == Projection(u, n, r.qual, "~")
        i == p - r.pos
    IN  IF i \in 0..(n - 1) /\ ord(gq[i + 1]) > ord(min_qual)
        THEN <<<<gs[i + 1], gq[i + 1]>>>>
        ELSE <<>>

\* C9: a step of ingest appends to the column at pos + i the pair i of the
\* gapped seq and qual exactly when its quality symbol is strictly greater
\* than min_quality; a position that receives no pair keeps its column as it
\* was, or stays without one; a record with cigar '*' changes nothing.
C9_IngestFrame ==
    [][pc = "update" =>
        /\ \A p \in DOMAIN columns \cup DOMAIN columns' \cup Covered(read) :
            /\ Observed(columns', p) = Observed(columns, p) \o Appended(read, p)
            /\ Appended(read, p) = <<>> =>
                /\ (p \in DOMAIN columns') = (p \in DOMAIN columns)
                /\ p \in DOMAIN columns => columns'[p] = columns[p]
            /\ Appended(read, p) # <<>> => p \in DOMAIN columns'
        /\ read.cigar = <<"*">> => (columns' = columns /\ ingested' = ingested)
    ]_vars

\* a record with one quality symbol above min_quality and one equal to it has
\* been ingested: its first position has a column, its second has none
C9_Witness ==
    /\ pc = "loop"
    /\ stream # <<>>
    /\ Processed(read)
    /\ read.qual = <<"I", "!">>
    /\ \E j \in 1..Len(ingested) : ingested[j].n = Len(stream) /\ ingested[j].pos = read.pos
    /\ (read.pos + 1) \notin DOMAIN columns

----------------------------------------------------------------------------
(* The round trip of a tag, checked under SpecTag *)

\* the type code of the kind of a value
TypeCode(data) ==
    CASE data.kind = "str" -> <<"Z">>
      [] data.kind = "int" -> <<"i">>
      [] data.kind = "float" -> <<"f">>

\* C10: decoding the text that encode_tag produced returns the tag name, the
\* type code of the kind of the value, and the value unchanged.
C10_TagRoundTrip ==
    ret.op = "decode_tag" => ret.r = Return(<<arg.tag, TypeCode(arg.data), arg.data>>)

----------------------------------------------------------------------------
(* The count columns of the pileup driver, checked under Spec *)

\* the sum of the numbers the strings of cols spell
RECURSIVE SumOfColumns(_)
SumOfColumns(cols) ==
    IF cols = <<>> THEN 0 ELSE DecimalValue(Head(cols)) + SumOfColumns(Tail(cols))

\* C11: the six count columns of a written column are the numbers of A, C,
\* T, G, N and '-' among all the observations of the column, so that they add
\* up to match count + mismatch count when every observed base is one of the
\* six symbols.
C11_CountsOverAllObservations ==
    \A i \in 1..Len(out) :
        /\ \A k \in 1..6 :
            DecimalValue(out[i].counts[k])
                = Cardinality({j \in 1..Len(out[i].seq) :
                                    out[i].seq[j] = <<"A", "C", "T", "G", "N", "-">>[k]})
        /\ (\A j \in 1..Len(out[i].seq) : out[i].seq[j] \in {"A", "C", "T", "G", "N", "-"})
            => SumOfColumns(out[i].counts)
                    = DecimalValue(out[i].line[4]) + DecimalValue(out[i].line[5])

----------------------------------------------------------------------------
(* The windows of tile_region, checked under SpecTile *)

\* the pair (first, last) of positions that a window string names
WindowOf(w) ==
    LET range == split(split(w, ":")[2], "-")
    IN  <<DecimalValue(range[1]), DecimalValue(range[2])>>

\* C12: the windows of tile_region(rname, start, end, step) for start <= end
\* and step >= 1 are in increasing order, contiguous and non-overlapping, each
\* holds at most step positions, and together they are the closed range
\* start..end: the first begins at start and the last ends at end.
C12_WindowsTileTheRegion ==
    ret.op = "tile_region" =>
        LET w == [k \in 1..Len(ret.r.val) |-> WindowOf(ret.r.val[k])]
        IN  /\ ret.r.err = ""
            /\ Len(w) >= 1
            /\ w[1][1] = arg.start
            /\ w[Len(w)][2] = arg.end
            /\ \A k \in 1..Len(w) : w[k][1] <= w[k][2] /\ w[k][2] - w[k][1] + 1 <= arg.step
            /\ \A k \in 1..(Len(w) - 1) : w[k + 1][1] = w[k][2] + 1

----------------------------------------------------------------------------
(* The MD cursor of parse_md, checked under SpecSam *)

\* the number of positions the MD string consumes: its run lengths and letters
Consumed(md) == Len(MdPlan(md_findall(md)))

\* C13: parse_md of a record whose MD string consumes more positions than
\* gapped(seq) holds fails with the IndexError of an inconsistent annotation,
\* also when only a run length of matches causes the overrun; it returns no
\* reference for such a record.
C13_MdOverrunFails ==
    (/\ ret.op = "parse_md"
     /\ gapped(arg, SEQ, "-", pep479).err = ""
     /\ __getitem__(arg, MD).err = ""
     /\ Consumed(MdOf(arg)) > Len(gapped(arg, SEQ, "-", pep479).val))
        => ret.r.err = "IndexError"

----------------------------------------------------------------------------
(* The resident columns of the pileup driver, checked under Spec *)

\* the numbers of the records of the stream that the driver has ingested
IngestedRecords ==
    {k \in 1..Len(stream) :
        /\ Processed(stream[k])
        /\ \/ pc \in {"loop", "done"}
           \/ \E k2 \in (k + 1)..Len(stream) : Processed(stream[k2])}

\* the most recent eviction bound: the position of the last record for which
\* clear(stop=read.pos) ran, 0 before the first
EvictionBound ==
    LET ks == {k \in 1..Len(stream) : Processed(stream[k])}
    IN  IF ks = {} THEN 0 ELSE stream[CHOOSE k \in ks : \A k2 \in ks : k2 <= k].pos

\* the positions covered by an ingested record
CoveredPositions == UNION {Covered(stream[k]) : k \in IngestedRecords}

\* the positions at which update appended an observation
ObservedPositions == {ingested[j].pos : j \in 1..Len(ingested)}

\* no written column is resident, and no resident column is below the bound
EvictedStayOut ==
    /\ \A p \in DOMAIN columns : p >= EvictionBound
    /\ \A i \in 1..Len(out) :
        ~(out[i].pos \in DOMAIN columns
            /\ columns[out[i].pos].sam.rname = out[i].line[1])

============================================================================
